---- MODULE Spec2Model ----
(***************************************************************************)
(* Control flow of spytrap-adb's main (src/src/main.rs): one run of the    *)
(* binary per invocation, each subcommand a chain of fallible calls joined *)
(* by `?`.  Two invocations of the tool share the on-disk rule cache.      *)
(***************************************************************************)
EXTENDS Integers, Sequences, FiniteSets, TLC

\* ------------------------------------------------------------------ bounds
\* Number of upstream revisions the remote rule source can serve.
NumCommits == 3

\* ------------------------------------------------------------- option type
None == <<>>
Some(x) == <<x>>
Unwrap(o) == o[1]

\* ------------------------------------------------------------------ inputs
Invocations == {1, 2}
SubCommands == {"Scan", "List", "DownloadIoc", "Completions", "None"}
\* ensure_adb_running only tells Never apart from the other choices; Auto
\* stands for them.
AdbServerChoice == {"Auto", "Never"}
\* Outcome of running `adb start-server`.
SpawnOutcomes == {"spawn_failed", "exit_success", "exit_failure"}
Outcomes == {"Ok", "Err"}
UserPath == "user.yaml"
CachePath == "cache/ioc.yaml"
Commits == 1 .. NumCommits

\* A rule document is the sequence of the rule identifiers it lists.
\* The upstream document of revision c: consecutive revisions may carry the
\* same document, and the newest revision lists one identifier twice.
RemoteDoc(c) == <<(c + 1) \div 2, IF c = NumCommits THEN (c + 1) \div 2 ELSE 0>>
\* Documents a user-supplied rules file may hold: the upstream one, another
\* valid one, one with a duplicated identifier, an empty one.
UserDocs == {RemoteDoc(1), <<9, 8>>, <<9, 9>>, <<>>}

\* ---------------------------------------------------------- pure functions
RECURSIVE Sha256(_)
\* Fingerprint of raw bytes, injective on the documents of the model.
Sha256(bytes) ==
    IF bytes = <<>> THEN 1
    ELSE Sha256(SubSeq(bytes, 1, Len(bytes) - 1)) * 16 + bytes[Len(bytes)] + 1

\* Rule identifiers are unique within a rule set.
ParseOk(bytes) == \A i, j \in 1 .. Len(bytes) : bytes[i] = bytes[j] => i = j

\* rules::load_map_from_file: read the file, parse it, return (rules, sha256).
LoadMapFromFile(file) ==
    IF file = None THEN [ok |-> "Err", rules |-> None, sha256 |-> None]
    ELSE IF ~ParseOk(Unwrap(file)) THEN [ok |-> "Err", rules |-> None, sha256 |-> None]
    ELSE [ok |-> "Ok", rules |-> Some(Unwrap(file)), sha256 |-> Some(Sha256(Unwrap(file)))]

\* ensure_adb_running with the exit status of `adb start-server` not looked at.
EnsureAdbRunningIgnoresStatus(choice, spawn) ==
    IF choice # "Never"
    THEN IF spawn = "spawn_failed" THEN [spawned |-> <<spawn>>, ok |-> "Err"]
         ELSE [spawned |-> <<spawn>>, ok |-> "Ok"]
    ELSE [spawned |-> <<>>, ok |-> "Ok"]

\* ensure_adb_running: the number of processes spawned and the result.
EnsureAdbRunning(choice, spawn) ==
    IF choice # "Never"
    THEN IF spawn = "spawn_failed" THEN [spawned |-> <<spawn>>, ok |-> "Err"]
         ELSE IF spawn # "exit_success" THEN [spawned |-> <<spawn>>, ok |-> "Err"]
         ELSE [spawned |-> <<spawn>>, ok |-> "Ok"]
    ELSE [spawned |-> <<>>, ok |-> "Ok"]

\* ------------------------------------------------------------------- state
VARIABLES
    args,        \* per invocation: the parsed command line
    pc,          \* per invocation: position in main
    calls,       \* per invocation: the calls made so far, in order, with results
    spawned,     \* per invocation: outcomes of the `adb start-server` processes run
    rules_path,  \* per invocation: Scan's rules_path
    rules,       \* per invocation: Scan's loaded rules
    sha256,      \* per invocation: Scan's fingerprint of the loaded bytes
    repo,        \* per invocation: the Repository returned by Repository::init
    reported,    \* per invocation: the commit logged as provenance
    ret,         \* per invocation: the TUI path's ret
    result,      \* per invocation: what main returned
    fetched,     \* per invocation: the download in progress
    tmpFile,     \* per invocation: the download's temporary file
    cacheFile,   \* the cached rule document on disk
    stateFile    \* the persisted RepositoryState on disk

vars == <<args, pc, calls, spawned, rules_path, rules, sha256, repo, reported,
          ret, result, fetched, tmpFile, cacheFile, stateFile>>

Args ==
    [subcommand : {"Scan"}, start_adb_server : AdbServerChoice,
     rules : {None, Some(UserPath)}, test_load_only : BOOLEAN]
    \cup
    [subcommand : SubCommands \ {"Scan"}, start_adb_server : AdbServerChoice,
     rules : {None}, test_load_only : {FALSE}]

\* What an earlier run of the tool left on disk: nothing, or the document and
\* state of a completed download.
Disks ==
    {[cache |-> None, state |-> None]} \cup
    {[cache |-> Some(RemoteDoc(c)),
      state |-> Some([sha256 |-> Sha256(RemoteDoc(c)), git_commit |-> c])] : c \in Commits}

Init ==
    /\ args \in [Invocations -> Args]
    /\ pc = [p \in Invocations |-> "main"]
    /\ calls = [p \in Invocations |-> <<>>]
    /\ spawned = [p \in Invocations |-> <<>>]
    /\ rules_path = [p \in Invocations |-> None]
    /\ rules = [p \in Invocations |-> None]
    /\ sha256 = [p \in Invocations |-> None]
    /\ repo = [p \in Invocations |-> None]
    /\ reported = [p \in Invocations |-> None]
    /\ ret = [p \in Invocations |-> None]
    /\ result = [p \in Invocations |-> None]
    /\ fetched = [p \in Invocations |-> None]
    /\ tmpFile = [p \in Invocations |-> None]
    /\ \E d \in Disks :
        /\ cacheFile = d.cache
        /\ stateFile = d.state

\* ----------------------------------------------------------------- helpers
Call(fn, arg, ok) == [fn |-> fn, arg |-> arg, ok |-> ok]

\* `?` on an error, or the end of main: the invocation is over.
Return(p, r) ==
    /\ pc' = [pc EXCEPT ![p] = "exit"]
    /\ result' = [result EXCEPT ![p] = Some(r)]

Goto(p, label) ==
    /\ pc' = [pc EXCEPT ![p] = label]
    /\ UNCHANGED result

\* ensure_adb_running(&args.start_adb_server).await?
EnsureStep(p, next) ==
    \E spawn \in SpawnOutcomes :
        LET r == EnsureAdbRunning(args[p].start_adb_server, spawn) IN
        /\ args[p].start_adb_server = "Never" => spawn = "exit_success"
        /\ calls' = [calls EXCEPT ![p] = Append(@, Call("ensure_adb_running", "", r.ok))]
        /\ spawned' = [spawned EXCEPT ![p] = @ \o r.spawned]
        /\ IF r.ok = "Ok" THEN Goto(p, next) ELSE Return(p, "Err")

\* ------------------------------------------------------------ Scan (48-93)
ScanEnsureAdb(p) ==
    /\ pc[p] = "main"
    /\ args[p].subcommand = "Scan"
    /\ EnsureStep(p, "scan_path")
    /\ UNCHANGED <<args, rules_path, rules, sha256, repo, reported, ret, fetched,
                   tmpFile, cacheFile, stateFile>>

\* Scan with the cache path always taken, whatever scan.rules holds.
ScanRulesPathAlwaysCache(p) ==
    /\ pc[p] = "scan_path"
    /\ \E ok \in Outcomes :
        /\ calls' = [calls EXCEPT ![p] = Append(@, Call("ioc_file_path", "", ok))]
        /\ IF ok = "Ok"
           THEN /\ rules_path' = [rules_path EXCEPT ![p] = Some(CachePath)]
                /\ Goto(p, "scan_load")
           ELSE /\ Return(p, "Err")
                /\ UNCHANGED rules_path
    /\ UNCHANGED <<args, spawned, rules, sha256, repo, reported, ret, fetched,
                   tmpFile, cacheFile, stateFile>>

ScanRulesPath(p) ==
    /\ pc[p] = "scan_path"
    /\ IF args[p].rules # None
       THEN /\ rules_path' = [rules_path EXCEPT ![p] = args[p].rules]
            /\ Goto(p, "scan_load")
            /\ UNCHANGED calls
       ELSE \E ok \in Outcomes :
            /\ calls' = [calls EXCEPT ![p] = Append(@, Call("ioc_file_path", "", ok))]
            /\ IF ok = "Ok"
               THEN /\ rules_path' = [rules_path EXCEPT ![p] = Some(CachePath)]
                    /\ Goto(p, "scan_load")
               ELSE /\ Return(p, "Err")
                    /\ UNCHANGED rules_path
    /\ UNCHANGED <<args, spawned, rules, sha256, repo, reported, ret, fetched,
                   tmpFile, cacheFile, stateFile>>

\* The file found at a path: the cache on disk, or whatever the user's file holds.
FilesAt(path) ==
    IF path = CachePath THEN {cacheFile}
    ELSE {None} \cup {Some(d) : d \in UserDocs}

\* Scan going on with an empty rule set when the load fails.
ScanLoadRulesOrDefault(p) ==
    /\ pc[p] = "scan_load"
    /\ \E file \in FilesAt(Unwrap(rules_path[p])) :
        LET r == LoadMapFromFile(file) IN
        /\ calls' = [calls EXCEPT ![p] =
                        Append(@, Call("load_map_from_file", Unwrap(rules_path[p]), r.ok))]
        /\ rules' = [rules EXCEPT ![p] = IF r.ok = "Ok" THEN r.rules ELSE Some(<<>>)]
        /\ sha256' = [sha256 EXCEPT ![p] = IF r.ok = "Ok" THEN r.sha256 ELSE Some(Sha256(<<>>))]
        /\ Goto(p, "scan_init")
    /\ UNCHANGED <<args, spawned, rules_path, repo, reported, ret, fetched,
                   tmpFile, cacheFile, stateFile>>

\* Scan fetching the rule database by itself when the load fails.
ScanLoadRulesAutoRepair(p) ==
    /\ pc[p] = "scan_load"
    /\ \E file \in FilesAt(Unwrap(rules_path[p])) :
        LET r == LoadMapFromFile(file)
            loaded == Append(calls[p], Call("load_map_from_file", Unwrap(rules_path[p]), r.ok))
        IN
        IF r.ok = "Ok"
        THEN /\ calls' = [calls EXCEPT ![p] = loaded]
             /\ rules' = [rules EXCEPT ![p] = r.rules]
             /\ sha256' = [sha256 EXCEPT ![p] = r.sha256]
             /\ Goto(p, "scan_init")
             /\ UNCHANGED repo
        ELSE /\ calls' = [calls EXCEPT ![p] =
                             Append(loaded, Call("download_ioc_file", "", "Pending"))]
             /\ repo' = [repo EXCEPT ![p] = Some([update_state |-> stateFile])]
             /\ Goto(p, "dl_fetch")
             /\ UNCHANGED <<rules, sha256>>
    /\ UNCHANGED <<args, spawned, rules_path, reported, ret, fetched,
                   tmpFile, cacheFile, stateFile>>

ScanLoadRules(p) ==
    /\ pc[p] = "scan_load"
    /\ \E file \in FilesAt(Unwrap(rules_path[p])) :
        LET r == LoadMapFromFile(file) IN
        /\ calls' = [calls EXCEPT ![p] =
                        Append(@, Call("load_map_from_file", Unwrap(rules_path[p]), r.ok))]
        /\ IF r.ok = "Ok"
           THEN /\ rules' = [rules EXCEPT ![p] = r.rules]
                /\ sha256' = [sha256 EXCEPT ![p] = r.sha256]
                /\ Goto(p, "scan_init")
           ELSE /\ Return(p, "Err")
                /\ UNCHANGED <<rules, sha256>>
    /\ UNCHANGED <<args, spawned, rules_path, repo, reported, ret, fetched,
                   tmpFile, cacheFile, stateFile>>

\* Repository::init: opens the cache location and loads the persisted state.
RepositoryInit(ok) ==
    IF ok = "Ok" THEN Some([update_state |-> stateFile]) ELSE None

\* The commit logged whenever a state is persisted, fingerprints not compared.
ProvenanceUnchecked(r, sha) ==
    IF r.update_state # None
    THEN Some(Unwrap(r.update_state).git_commit)
    ELSE None

\* The commit logged after Repository::init (67-74).
Provenance(r, sha) ==
    IF r.update_state # None
    THEN IF Unwrap(r.update_state).sha256 = sha
         THEN Some(Unwrap(r.update_state).git_commit)
         ELSE None
    ELSE None

\* Scan with test_load_only not looked at.
ScanRepoInitNoTestLoadOnly(p) ==
    /\ pc[p] = "scan_init"
    /\ \E ok \in Outcomes :
        /\ calls' = [calls EXCEPT ![p] = Append(@, Call("Repository::init", "", ok))]
        /\ repo' = [repo EXCEPT ![p] = RepositoryInit(ok)]
        /\ IF ok = "Ok"
           THEN /\ reported' = [reported EXCEPT ![p] =
                                   Provenance(Unwrap(RepositoryInit(ok)), Unwrap(sha256[p]))]
                /\ Goto(p, "scan_device")
           ELSE /\ Return(p, "Err")
                /\ UNCHANGED reported
    /\ UNCHANGED <<args, spawned, rules_path, rules, sha256, ret, fetched,
                   tmpFile, cacheFile, stateFile>>

ScanRepoInit(p) ==
    /\ pc[p] = "scan_init"
    /\ \E ok \in Outcomes :
        /\ calls' = [calls EXCEPT ![p] = Append(@, Call("Repository::init", "", ok))]
        /\ repo' = [repo EXCEPT ![p] = RepositoryInit(ok)]
        /\ IF ok = "Ok"
           THEN /\ reported' = [reported EXCEPT ![p] =
                                   Provenance(Unwrap(RepositoryInit(ok)), Unwrap(sha256[p]))]
                /\ IF args[p].test_load_only
                   THEN Return(p, "Ok")
                   ELSE Goto(p, "scan_device")
           ELSE /\ Return(p, "Err")
                /\ UNCHANGED reported
    /\ UNCHANGED <<args, spawned, rules_path, rules, sha256, ret, fetched,
                   tmpFile, cacheFile, stateFile>>

\* Scan going on to scan::run whatever device_or_default returned.
ScanDeviceUnchecked(p) ==
    /\ pc[p] = "scan_device"
    /\ \E ok \in Outcomes :
        /\ calls' = [calls EXCEPT ![p] = Append(@, Call("device_or_default", "", ok))]
        /\ Goto(p, "scan_run")
    /\ UNCHANGED <<args, spawned, rules_path, rules, sha256, repo, reported, ret,
                   fetched, tmpFile, cacheFile, stateFile>>

ScanDevice(p) ==
    /\ pc[p] = "scan_device"
    /\ \E ok \in Outcomes :
        /\ calls' = [calls EXCEPT ![p] = Append(@, Call("device_or_default", "", ok))]
        /\ IF ok = "Ok" THEN Goto(p, "scan_run") ELSE Return(p, "Err")
    /\ UNCHANGED <<args, spawned, rules_path, rules, sha256, repo, reported, ret,
                   fetched, tmpFile, cacheFile, stateFile>>

ScanRun(p) ==
    /\ pc[p] = "scan_run"
    /\ \E ok \in Outcomes :
        /\ calls' = [calls EXCEPT ![p] = Append(@, Call("scan::run", "", ok))]
        /\ Return(p, ok)
    /\ UNCHANGED <<args, spawned, rules_path, rules, sha256, repo, reported, ret,
                   fetched, tmpFile, cacheFile, stateFile>>

\* ------------------------------------------------------------ List (94-113)
ListEnsureAdb(p) ==
    /\ pc[p] = "main"
    /\ args[p].subcommand = "List"
    /\ EnsureStep(p, "list_devices")
    /\ UNCHANGED <<args, rules_path, rules, sha256, repo, reported, ret, fetched,
                   tmpFile, cacheFile, stateFile>>

ListDevices(p) ==
    /\ pc[p] = "list_devices"
    /\ \E ok \in Outcomes :
        /\ calls' = [calls EXCEPT ![p] = Append(@, Call("devices", "", ok))]
        /\ Return(p, ok)
    /\ UNCHANGED <<args, spawned, rules_path, rules, sha256, repo, reported, ret,
                   fetched, tmpFile, cacheFile, stateFile>>

\* --------------------------------------------------- DownloadIoc (114-119)
DownloadRepoInit(p) ==
    /\ pc[p] = "main"
    /\ args[p].subcommand = "DownloadIoc"
    /\ \E ok \in Outcomes :
        /\ calls' = [calls EXCEPT ![p] = Append(@, Call("Repository::init", "", ok))]
        /\ repo' = [repo EXCEPT ![p] = RepositoryInit(ok)]
        /\ IF ok = "Ok" THEN Goto(p, "dl_call") ELSE Return(p, "Err")
    /\ UNCHANGED <<args, spawned, rules_path, rules, sha256, reported, ret, fetched,
                   tmpFile, cacheFile, stateFile>>

\* repo.download_ioc_file() is entered.
DownloadCall(p) ==
    /\ pc[p] = "dl_call"
    /\ calls' = [calls EXCEPT ![p] = Append(@, Call("download_ioc_file", "", "Pending"))]
    /\ Goto(p, "dl_fetch")
    /\ UNCHANGED <<args, spawned, rules_path, rules, sha256, repo, reported, ret,
                   fetched, tmpFile, cacheFile, stateFile>>

\* download_ioc_file returns r to main.
IocReturn(p, r) ==
    /\ calls' = [calls EXCEPT ![p][Len(calls[p])].ok = r]
    /\ fetched' = [fetched EXCEPT ![p] = None]
    /\ tmpFile' = [tmpFile EXCEPT ![p] = None]
    /\ Goto(p, "dl_return")

\* download(): fetch the document; nothing to do if its fingerprint is the stored one.
IocFetch(p) ==
    /\ pc[p] = "dl_fetch"
    /\ \/ /\ IocReturn(p, "Err")
          /\ UNCHANGED <<cacheFile, stateFile>>
       \/ \E c \in Commits :
            LET st == Unwrap(repo[p]).update_state IN
            IF st # None /\ Unwrap(st).sha256 = Sha256(RemoteDoc(c))
            THEN /\ IocReturn(p, "Ok")
                 /\ UNCHANGED <<cacheFile, stateFile>>
            ELSE /\ fetched' = [fetched EXCEPT ![p] = Some([bytes |-> RemoteDoc(c), git_commit |-> c])]
                 /\ tmpFile' = [tmpFile EXCEPT ![p] = Some(<<>>)]
                 /\ Goto(p, "dl_write")
                 /\ UNCHANGED <<calls, cacheFile, stateFile>>
    /\ UNCHANGED <<args, spawned, rules_path, rules, sha256, repo, reported, ret>>

\* download() writing the fetched bytes straight into the cached file.
IocWriteInPlace(p) ==
    /\ pc[p] = "dl_write"
    /\ Len(Unwrap(tmpFile[p])) < Len(Unwrap(fetched[p]).bytes)
    /\ \/ /\ tmpFile' = [tmpFile EXCEPT ![p] =
                            Some(Append(Unwrap(@), Unwrap(fetched[p]).bytes[Len(Unwrap(@)) + 1]))]
          /\ cacheFile' = tmpFile'[p]
          /\ UNCHANGED <<pc, result, calls, fetched>>
       \/ /\ IocReturn(p, "Err")
          /\ UNCHANGED cacheFile
    /\ UNCHANGED <<args, spawned, rules_path, rules, sha256, repo, reported, ret,
                   stateFile>>

\* download(): write the fetched bytes to the temporary location, piece by piece.
IocWrite(p) ==
    /\ pc[p] = "dl_write"
    /\ Len(Unwrap(tmpFile[p])) < Len(Unwrap(fetched[p]).bytes)
    /\ \/ /\ tmpFile' = [tmpFile EXCEPT ![p] =
                            Some(Append(Unwrap(@), Unwrap(fetched[p]).bytes[Len(Unwrap(@)) + 1]))]
          /\ UNCHANGED <<pc, result, calls, fetched>>
       \/ IocReturn(p, "Err")
    /\ UNCHANGED <<args, spawned, rules_path, rules, sha256, repo, reported, ret,
                   cacheFile, stateFile>>

\* download(): rename the temporary file over the cache and record the state.
IocReplace(p) ==
    /\ pc[p] = "dl_write"
    /\ Len(Unwrap(tmpFile[p])) = Len(Unwrap(fetched[p]).bytes)
    /\ \/ /\ cacheFile' = tmpFile[p]
          /\ stateFile' = Some([sha256 |-> Sha256(Unwrap(fetched[p]).bytes),
                                git_commit |-> Unwrap(fetched[p]).git_commit])
          /\ IocReturn(p, "Ok")
       \/ /\ IocReturn(p, "Err")
          /\ UNCHANGED <<cacheFile, stateFile>>
    /\ UNCHANGED <<args, spawned, rules_path, rules, sha256, repo, reported, ret>>

\* DownloadIoc with the result of download_ioc_file dropped.
DownloadReturnSwallowed(p) ==
    /\ pc[p] = "dl_return"
    /\ Return(p, "Ok")
    /\ UNCHANGED <<args, calls, spawned, rules_path, rules, sha256, repo, reported,
                   ret, fetched, tmpFile, cacheFile, stateFile>>

\* .context("Failed to download ...")?; then Ok(()) at the end of main.
DownloadReturn(p) ==
    /\ pc[p] = "dl_return"
    /\ Return(p, calls[p][Len(calls[p])].ok)
    /\ UNCHANGED <<args, calls, spawned, rules_path, rules, sha256, repo, reported,
                   ret, fetched, tmpFile, cacheFile, stateFile>>

\* --------------------------------------------------- Completions (120-122)
CompletionsGenerate(p) ==
    /\ pc[p] = "main"
    /\ args[p].subcommand = "Completions"
    /\ \E ok \in Outcomes :
        /\ calls' = [calls EXCEPT ![p] = Append(@, Call("generate", "", ok))]
        /\ Return(p, ok)
    /\ UNCHANGED <<args, spawned, rules_path, rules, sha256, repo, reported, ret,
                   fetched, tmpFile, cacheFile, stateFile>>

\* ------------------------------------------------- no subcommand (123-132)
TuiEnsureAdb(p) ==
    /\ pc[p] = "main"
    /\ args[p].subcommand = "None"
    /\ EnsureStep(p, "tui_new")
    /\ UNCHANGED <<args, rules_path, rules, sha256, repo, reported, ret, fetched,
                   tmpFile, cacheFile, stateFile>>

\* A call whose error `?` returns from main.
TryStep(p, fn, next) ==
    \E ok \in Outcomes :
        /\ calls' = [calls EXCEPT ![p] = Append(@, Call(fn, "", ok))]
        /\ IF ok = "Ok" THEN Goto(p, next) ELSE Return(p, "Err")

TuiAppNew(p) ==
    /\ pc[p] = "tui_new"
    /\ TryStep(p, "App::new", "tui_init")
    /\ UNCHANGED <<args, spawned, rules_path, rules, sha256, repo, reported, ret,
                   fetched, tmpFile, cacheFile, stateFile>>

TuiAppInit(p) ==
    /\ pc[p] = "tui_init"
    /\ TryStep(p, "app.init", "tui_setup")
    /\ UNCHANGED <<args, spawned, rules_path, rules, sha256, repo, reported, ret,
                   fetched, tmpFile, cacheFile, stateFile>>

TuiSetup(p) ==
    /\ pc[p] = "tui_setup"
    /\ TryStep(p, "tui::setup", "tui_run")
    /\ UNCHANGED <<args, spawned, rules_path, rules, sha256, repo, reported, ret,
                   fetched, tmpFile, cacheFile, stateFile>>

\* let ret = tui::run(...).await;
TuiRun(p) ==
    /\ pc[p] = "tui_run"
    /\ \E ok \in Outcomes :
        /\ calls' = [calls EXCEPT ![p] = Append(@, Call("tui::run", "", ok))]
        /\ ret' = [ret EXCEPT ![p] = Some(ok)]
        /\ Goto(p, "tui_cleanup")
    /\ UNCHANGED <<args, spawned, rules_path, rules, sha256, repo, reported,
                   fetched, tmpFile, cacheFile, stateFile>>

\* The TUI path with tui::cleanup's error propagated by `?`.
TuiCleanupPropagated(p) ==
    /\ pc[p] = "tui_cleanup"
    /\ \E ok \in Outcomes :
        /\ calls' = [calls EXCEPT ![p] = Append(@, Call("tui::cleanup", "", ok))]
        /\ Return(p, IF ok = "Err" THEN "Err" ELSE Unwrap(ret[p]))
    /\ UNCHANGED <<args, spawned, rules_path, rules, sha256, repo, reported, ret,
                   fetched, tmpFile, cacheFile, stateFile>>

\* tui::cleanup(&mut terminal).ok(); ret?; Ok(())
TuiCleanup(p) ==
    /\ pc[p] = "tui_cleanup"
    /\ \E ok \in Outcomes :
        /\ calls' = [calls EXCEPT ![p] = Append(@, Call("tui::cleanup", "", ok))]
        /\ Return(p, Unwrap(ret[p]))
    /\ UNCHANGED <<args, spawned, rules_path, rules, sha256, repo, reported, ret,
                   fetched, tmpFile, cacheFile, stateFile>>

\* ------------------------------------------------------------ specification
Next ==
    \E p \in Invocations :
        \/ ScanEnsureAdb(p)
        \/ ScanRulesPath(p)
        \/ ScanLoadRules(p)
        \/ ScanRepoInit(p)
        \/ ScanDevice(p)
        \/ ScanRun(p)
        \/ ListEnsureAdb(p)
        \/ ListDevices(p)
        \/ DownloadRepoInit(p)
        \/ DownloadCall(p)
        \/ IocFetch(p)
        \/ IocWrite(p)
        \/ IocReplace(p)
        \/ DownloadReturn(p)
        \/ CompletionsGenerate(p)
        \/ TuiEnsureAdb(p)
        \/ TuiAppNew(p)
        \/ TuiAppInit(p)
        \/ TuiSetup(p)
        \/ TuiRun(p)
        \/ TuiCleanup(p)

Spec == Init /\ [][Next]_vars

\* ------------------------------------------------------------------ claims
CallsOf(p, fn) == {i \in 1 .. Len(calls[p]) : calls[p][i].fn = fn}
Called(p, fn) == CallsOf(p, fn) # {}
Succeeded(p, fn) == \E i \in CallsOf(p, fn) : calls[p][i].ok = "Ok"
Failed(p, fn) == \E i \in CallsOf(p, fn) : calls[p][i].ok = "Err"
Fns(p) == [i \in 1 .. Len(calls[p]) |-> calls[p][i].fn]
IsScan(p) == args[p].subcommand = "Scan"

\* C1: Scan loads the rules from the user-supplied path whenever one is given
\* and from the repository cache path only when none is given; with an explicit
\* path, ioc_file_path is never computed and the cache path is never the path
\* handed to load_map_from_file.
C1_RulesPathPrecedence ==
    \A p \in Invocations : IsScan(p) =>
        LET want == IF args[p].rules # None THEN args[p].rules ELSE Some(CachePath) IN
        /\ rules_path[p] # None => rules_path[p] = want
        /\ \A i \in CallsOf(p, "load_map_from_file") : calls[p][i].arg = Unwrap(want)
        /\ args[p].rules # None => ~Called(p, "ioc_file_path")
        /\ Called(p, "ioc_file_path") => args[p].rules = None

\* An explicit path was given, a cache exists, and the rules were loaded.
C1_Witness ==
    \E p \in Invocations :
        /\ IsScan(p) /\ args[p].rules = Some(UserPath)
        /\ cacheFile # None
        /\ Succeeded(p, "load_map_from_file")
        /\ rules[p] # None

\* C2: when loading the rules fails in Scan, main ends with an error and that
\* load is the last call of the invocation: no second load, no Repository::init,
\* no device access, no scan::run.
C2_LoadFailureIsFatal ==
    \A p \in Invocations : Failed(p, "load_map_from_file") =>
        /\ pc[p] = "exit" /\ result[p] = Some("Err")
        /\ CallsOf(p, "load_map_from_file") = {Len(calls[p])}
        /\ ~Called(p, "Repository::init")
        /\ ~Called(p, "device_or_default")
        /\ ~Called(p, "scan::run")
        /\ rules[p] = None

\* The user's file failed to load while a loadable cache was on disk.
C2_Witness ==
    \E p \in Invocations :
        /\ IsScan(p) /\ args[p].rules = Some(UserPath)
        /\ Failed(p, "load_map_from_file")
        /\ LoadMapFromFile(cacheFile).ok = "Ok"

\* C3: download_ioc_file is called only by the DownloadIoc subcommand, and the
\* rule cache is never being written by any other subcommand.
C3_DownloadOnlyOnRequest ==
    \A p \in Invocations : args[p].subcommand # "DownloadIoc" =>
        /\ ~Called(p, "download_ioc_file")
        /\ pc[p] \notin {"dl_call", "dl_fetch", "dl_write", "dl_return"}
        /\ fetched[p] = None /\ tmpFile[p] = None

\* A Scan whose load of the cached rules failed and which has ended.
C3_Witness ==
    \E p \in Invocations :
        /\ IsScan(p) /\ args[p].rules = None
        /\ Failed(p, "load_map_from_file")
        /\ pc[p] = "exit"

\* C4: in DownloadIoc, an error of download_ioc_file makes main return an error,
\* and main returns Ok only if Repository::init and download_ioc_file succeeded.
C4_DownloadErrorSurfaced ==
    \A p \in Invocations : (args[p].subcommand = "DownloadIoc" /\ pc[p] = "exit") =>
        /\ Failed(p, "download_ioc_file") => result[p] = Some("Err")
        /\ result[p] = Some("Ok") =>
              Succeeded(p, "Repository::init") /\ Succeeded(p, "download_ioc_file")
        /\ result[p] \in {Some("Ok"), Some("Err")}

\* A DownloadIoc run whose download failed has ended.
C4_Witness ==
    \E p \in Invocations :
        /\ args[p].subcommand = "DownloadIoc" /\ pc[p] = "exit"
        /\ Failed(p, "download_ioc_file")

ScanOrder(p) ==
    <<"ensure_adb_running">>
    \o (IF args[p].rules = None THEN <<"ioc_file_path">> ELSE <<>>)
    \o <<"load_map_from_file", "Repository::init", "device_or_default", "scan::run">>

\* C5: in Scan, a failed device access ends main with an error and scan::run is
\* never called; scan::run is called only after the adb-server check, the rules
\* load, Repository::init and the device access succeeded, in that order.
C5_DeviceBeforeMatching ==
    \A p \in Invocations : IsScan(p) =>
        /\ Failed(p, "device_or_default") =>
              /\ pc[p] = "exit" /\ result[p] = Some("Err")
              /\ ~Called(p, "scan::run")
        /\ Called(p, "scan::run") =>
              /\ Fns(p) = ScanOrder(p)
              /\ \A i \in 1 .. Len(calls[p]) - 1 : calls[p][i].ok = "Ok"

\* A Scan whose device access failed.
C5_Witness ==
    \E p \in Invocations : IsScan(p) /\ Failed(p, "device_or_default") /\ pc[p] = "exit"

StoredState(p) == Unwrap(repo[p]).update_state

\* C7: Scan reports a commit only when the repository has a persisted state whose
\* fingerprint equals the sha256 of the bytes just loaded, and then it is that
\* state's commit; without a state or with another fingerprint nothing is
\* reported, and the scan goes on either way.
C7_ProvenanceOnlyOnMatch ==
    \A p \in Invocations : IsScan(p) =>
        /\ rules[p] # None => sha256[p] = Some(Sha256(Unwrap(rules[p])))
        /\ reported[p] # None =>
              /\ Succeeded(p, "Repository::init")
              /\ StoredState(p) # None
              /\ Unwrap(StoredState(p)).sha256 = Unwrap(sha256[p])
              /\ reported[p] = Some(Unwrap(StoredState(p)).git_commit)
        /\ (Succeeded(p, "Repository::init") /\ calls[p][Len(calls[p])].fn = "Repository::init") =>
              IF args[p].test_load_only
              THEN pc[p] = "exit" /\ result[p] = Some("Ok")
              ELSE pc[p] = "scan_device"

\* A state is persisted, the rules loaded have another fingerprint, nothing is
\* reported and the scan is about to open the device.
C7_Witness ==
    \E p \in Invocations :
        /\ IsScan(p) /\ Succeeded(p, "Repository::init")
        /\ StoredState(p) # None
        /\ Unwrap(StoredState(p)).sha256 # Unwrap(sha256[p])
        /\ reported[p] = None
        /\ pc[p] = "scan_device"

\* C8: with test_load_only, Scan never opens a device nor calls scan::run, and
\* main returns Ok exactly when the adb-server check, the rules load and
\* Repository::init all succeeded.
C8_TestLoadOnly ==
    \A p \in Invocations : (IsScan(p) /\ args[p].test_load_only) =>
        /\ ~Called(p, "device_or_default")
        /\ ~Called(p, "scan::run")
        /\ pc[p] \notin {"scan_device", "scan_run"}
        /\ pc[p] = "exit" =>
              (result[p] = Some("Ok") <=>
                   /\ Succeeded(p, "ensure_adb_running")
                   /\ Succeeded(p, "load_map_from_file")
                   /\ Succeeded(p, "Repository::init"))

\* A test_load_only Scan that returned Ok.
C8_Witness ==
    \E p \in Invocations :
        /\ IsScan(p) /\ args[p].test_load_only
        /\ pc[p] = "exit" /\ result[p] = Some("Ok")

\* C9: ensure_adb_running spawns nothing and returns Ok for Never; otherwise it
\* runs `adb start-server` once and returns Ok iff the process was spawned and
\* exited with success.  After an error its caller does nothing more, and
\* DownloadIoc and Completions never call it.
C9_EnsureAdbRunning ==
    \A p \in Invocations :
        /\ Called(p, "ensure_adb_running") =>
              /\ args[p].subcommand \in {"Scan", "List", "None"}
              /\ CallsOf(p, "ensure_adb_running") = {1}
              /\ IF args[p].start_adb_server = "Never"
                 THEN spawned[p] = <<>> /\ calls[p][1].ok = "Ok"
                 ELSE /\ Len(spawned[p]) = 1
                      /\ calls[p][1].ok = "Ok" <=> spawned[p][1] = "exit_success"
        /\ ~Called(p, "ensure_adb_running") => spawned[p] = <<>>
        /\ Failed(p, "ensure_adb_running") =>
              /\ pc[p] = "exit" /\ result[p] = Some("Err")
              /\ Len(calls[p]) = 1
        /\ args[p].subcommand \in {"DownloadIoc", "Completions"} =>
              ~Called(p, "ensure_adb_running")

\* `adb start-server` was spawned and exited with a failure status.
C9_Witness ==
    \E p \in Invocations :
        /\ args[p].start_adb_server # "Never"
        /\ spawned[p] = <<"exit_failure">>
        /\ pc[p] = "exit"

TuiOrder ==
    <<"ensure_adb_running", "App::new", "app.init", "tui::setup", "tui::run", "tui::cleanup">>

\* C10: without a subcommand, once tui::setup succeeded tui::cleanup runs after
\* tui::run whatever tui::run returned, main returns what tui::run returned
\* whatever tui::cleanup returned, and a failure of App::new, app.init or
\* tui::setup means tui::run and tui::cleanup are not executed.
C10_TuiCleanupAlways ==
    \A p \in Invocations : args[p].subcommand = "None" =>
        /\ (pc[p] = "exit" /\ Succeeded(p, "tui::setup")) =>
              /\ Fns(p) = TuiOrder
              /\ result[p] = Some(calls[p][5].ok)
        /\ Called(p, "tui::run") => Succeeded(p, "tui::setup")
        /\ Called(p, "tui::cleanup") => Called(p, "tui::run")
        /\ (Failed(p, "App::new") \/ Failed(p, "app.init") \/ Failed(p, "tui::setup")) =>
              /\ ~Called(p, "tui::run")
              /\ ~Called(p, "tui::cleanup")
              /\ pc[p] = "exit" /\ result[p] = Some("Err")

\* tui::run succeeded, tui::cleanup failed, and main has returned.
C10_Witness ==
    \E p \in Invocations :
        /\ args[p].subcommand = "None" /\ pc[p] = "exit"
        /\ Succeeded(p, "tui::run")
        /\ Failed(p, "tui::cleanup")

\* The cache holds nothing or one whole upstream document.
CacheWhole == cacheFile = None \/ \E c \in Commits : cacheFile = Some(RemoteDoc(c))

\* Whatever a Scan loaded from the cache path is one whole upstream document.
ReadersWhole ==
    \A p \in Invocations : (rules_path[p] = Some(CachePath) /\ rules[p] # None) =>
        \E c \in Commits : rules[p] = Some(RemoteDoc(c))

\* The step in which some invocation's download_ioc_file returns Ok.
DownloadSucceeds ==
    \E p \in Invocations :
        /\ pc[p] = "dl_write" /\ pc'[p] = "dl_return"
        /\ calls'[p][Len(calls'[p])].ok = "Ok"

\* C6: the cache and its state change only in the step that completes a
\* successful download (so a download that fails, at any point, has left them
\* as they were), the cache never holds a partly written document, and no Scan
\* ever loads one from it.
C6_AtomicCacheReplace ==
    [][ /\ (cacheFile' # cacheFile \/ stateFile' # stateFile) => DownloadSucceeds
        /\ CacheWhole'
        /\ ReadersWhole' ]_vars

\* A Scan has just loaded the cached rules while another invocation's download
\* is half written.
C6_Witness ==
    \E p, q \in Invocations :
        /\ IsScan(p) /\ rules_path[p] = Some(CachePath) /\ pc[p] = "scan_init"
        /\ pc[q] = "dl_write" /\ Len(Unwrap(tmpFile[q])) = 1
        /\ cacheFile # None
        /\ Unwrap(fetched[q]).bytes # Unwrap(cacheFile)

====
